---------------------------- MODULE Spec2Model ----------------------------
(***************************************************************************)
(* A model of three files of the transformers library:                     *)
(*   models/convnext/configuration_convnext.py    (ConvNextConfig)         *)
(*   models/perceiver/processing_perceiver.py     (Perceiver pre-processing)*)
(*   models/vit_mae/convert_vit_mae_to_pytorch.py (checkpoint conversion)  *)
(* Each file is an independent part of the state; each has its own         *)
(* specification (SpecConvNext, SpecPreprocessor, SpecDownsample,          *)
(* SpecFourier, SpecViTMAE) that leaves the other parts idle.              *)
(***************************************************************************)
EXTENDS Integers, Sequences, FiniteSets, TLC

VARIABLES
    heap,        \* ConvNext: the Python list objects, by object id
    configs,     \* ConvNext: the ConvNextConfig objects constructed so far
    last,        \* ConvNext: the last operation and, for a constructor call, its arguments
    prep,        \* Perceiver: the last PerceiverImagePreprocessor(...) call and its outcome
    ds,          \* Perceiver: the last Conv2DDownsample.forward call and its outcome
    fmod,        \* Perceiver: the fields of the PerceiverFourierPositionEncoding module
    fcall,       \* Perceiver: the last call of that module's forward, and its outcome
    stdout,      \* Perceiver: the lines the process has printed
    pc,          \* ViT-MAE: position of convert_vit_mae_checkpoint
    state_dict,  \* ViT-MAE: the (ordered) dict handled by the script
    orig_dict,   \* ViT-MAE: the dict as it was downloaded
    events,      \* ViT-MAE: the I/O steps the run has completed, in order
    dump         \* ViT-MAE: what has been written to pytorch_dump_folder_path

vars == <<heap, configs, last, prep, ds, fmod, fcall, stdout,
          pc, state_dict, orig_dict, events, dump>>

convnextVars == <<heap, configs, last>>
prepVars == <<prep>>
dsVars == <<ds>>
fourierVars == <<fmod, fcall, stdout>>
vitmaeVars == <<pc, state_dict, orig_dict, events, dump>>

Range(s) == {s[i] : i \in DOMAIN s}

(***************************************************************************)
(*                 configuration_convnext.py : ConvNextConfig              *)
(***************************************************************************)

\* Bounds of the ConvNext part.
MaxConfigs == 2
MaxListLen == 5
MaxObjs == 4

\* The default values of the signature (lines 72-80).  Floats are kept as
\* their literals.
DefaultNumChannels == 3
DefaultNumStages == 4

\* The two list objects the `def` statement creates once, when the class body
\* is executed (lines 74-75): object ids 1 and 2 of the heap.
DefaultDimsRef == 1
DefaultDepthsRef == 2

ArgNames == {"num_channels", "num_stages", "dims", "depths", "initializer_range",
             "layer_norm_eps", "is_encoder_decoder", "layer_scale_init_value",
             "drop_path_rate"}

\* The values of the named parameters when the caller passes none.
SignatureDefaults ==
    [num_channels |-> DefaultNumChannels,
     num_stages |-> DefaultNumStages,
     dims |-> DefaultDimsRef,
     depths |-> DefaultDepthsRef,
     initializer_range |-> "0.02",
     layer_norm_eps |-> "1e-12",
     is_encoder_decoder |-> FALSE,
     layer_scale_init_value |-> "1e-6",
     drop_path_rate |-> "0.0"]

InitialHeap == (DefaultDimsRef :> <<96, 192, 384, 768>>) @@ (DefaultDepthsRef :> <<3, 3, 9, 3>>)

\* PretrainedConfig.__init__(**kwargs): the base class reads is_encoder_decoder
\* from the keyword arguments it is handed, False when absent.
PretrainedConfigInit(kwargs) ==
    [is_encoder_decoder |->
        IF "is_encoder_decoder" \in DOMAIN kwargs THEN kwargs["is_encoder_decoder"] ELSE FALSE]

\* ConvNextConfig.__init__ (lines 70-92).  `a` holds the value bound to each
\* named parameter; the named parameters are not part of **kwargs, so the base
\* class is handed the remaining keyword arguments only (none in this model).
ConvNextConfigInit(a) ==
    LET base == PretrainedConfigInit(<<>>)
    IN  [num_channels |-> a.num_channels,
         num_stages |-> a.num_stages,
         dims |-> a.dims,
         depths |-> a.depths,
         initializer_range |-> a.initializer_range,
         layer_norm_eps |-> a.layer_norm_eps,
         layer_scale_init_value |-> a.layer_scale_init_value,
         drop_path_rate |-> a.drop_path_rate,
         is_encoder_decoder |-> base.is_encoder_decoder]

\* What a caller may pass for each scalar parameter.
OtherValues ==
    [num_channels |-> 1,
     num_stages |-> 2,
     initializer_range |-> "0.1",
     layer_norm_eps |-> "1e-6",
     is_encoder_decoder |-> TRUE,
     layer_scale_init_value |-> "1e-2",
     drop_path_rate |-> "0.1"]

\* The sets of parameters a caller names in a constructor call.
PassedSets ==
    {{}, {"is_encoder_decoder"}, {"dims"}, {"num_stages", "dims", "depths"}, ArgNames}

CallerLists == {<<64, 128, 256, 512>>}
AssignIndexes == {1}
AppendValues == {1536}

NoCall == [op |-> "none", passed |-> {}, args |-> SignatureDefaults, idx |-> 0]

InitConvNext ==
    /\ heap = InitialHeap
    /\ configs = <<>>
    /\ last = NoCall

\* cfg = ConvNextConfig(**passed): the caller builds fresh list objects for the
\* lists it passes; the parameters it does not name are bound to the defaults.
Construct ==
    \E passed \in PassedSets, l \in CallerLists :
        LET nd == IF "dims" \in passed THEN 1 ELSE 0
            np == IF "depths" \in passed THEN 1 ELSE 0
            n == Cardinality(DOMAIN heap)
            dimsRef == IF "dims" \in passed THEN n + 1 ELSE DefaultDimsRef
            depthsRef == IF "depths" \in passed THEN n + nd + 1 ELSE DefaultDepthsRef
            fresh == [r \in ((n + 1)..(n + nd + np)) |-> l]
            a == [name \in ArgNames |->
                    IF name \notin passed THEN SignatureDefaults[name]
                    ELSE IF name = "dims" THEN dimsRef
                    ELSE IF name = "depths" THEN depthsRef
                    ELSE OtherValues[name]]
        IN  /\ Len(configs) < MaxConfigs
            /\ n + nd + np <= MaxObjs
            /\ heap' = fresh @@ heap
            /\ configs' = Append(configs, ConvNextConfigInit(a))
            /\ last' = [op |-> "construct", passed |-> passed, args |-> a,
                        idx |-> Len(configs) + 1]

\* cfg.dims.append(v) / cfg.depths.append(v) on a configuration built earlier.
ListAppend ==
    \E i \in DOMAIN configs, f \in {"dims", "depths"}, v \in AppendValues :
        LET ref == configs[i][f]
        IN  /\ Len(heap[ref]) < MaxListLen
            /\ heap' = [heap EXCEPT ![ref] = Append(@, v)]
            /\ last' = [NoCall EXCEPT !.op = "append", !.idx = i]
            /\ UNCHANGED configs

\* cfg.dims[k] = v / cfg.depths[k] = v on a configuration built earlier.
ListAssign ==
    \E i \in DOMAIN configs, f \in {"dims", "depths"}, v \in AppendValues :
        LET ref == configs[i][f]
        IN  \E k \in DOMAIN heap[ref] \cap AssignIndexes :
                /\ heap[ref][k] # v
                /\ heap' = [heap EXCEPT ![ref][k] = v]
                /\ last' = [NoCall EXCEPT !.op = "assign", !.idx = i]
                /\ UNCHANGED configs

\* cfg.num_channels = v on a configuration built earlier.
SetAttr ==
    \E i \in DOMAIN configs, f \in {"num_channels"} :
        /\ configs[i][f] # OtherValues[f]
        /\ configs' = [configs EXCEPT ![i][f] = OtherValues[f]]
        /\ last' = [NoCall EXCEPT !.op = "setattr", !.idx = i]
        /\ UNCHANGED heap

NextConvNext ==
    \/ Construct /\ UNCHANGED <<prepVars, dsVars, fourierVars, vitmaeVars>>
    \/ ListAppend /\ UNCHANGED <<prepVars, dsVars, fourierVars, vitmaeVars>>
    \/ ListAssign /\ UNCHANGED <<prepVars, dsVars, fourierVars, vitmaeVars>>
    \/ SetAttr /\ UNCHANGED <<prepVars, dsVars, fourierVars, vitmaeVars>>


(***************************************************************************)
(*        processing_perceiver.py : PerceiverImagePreprocessor.__init__    *)
(***************************************************************************)

\* Bounds of the arguments tried.
MaxDownsample == 65
MaxTemporal == 2

PrepTypes == {"conv", "patches", "pixels", "conv1x1"}
ConcatOrAdd == {"concat", "add"}
PositionEncodingTypes == {"trainable", "fourier"}

\* math.log(x, 4) == np.round(math.log(x, 4)) for an integer x >= 1 (lines
\* 331-332): the quotient log(x)/log(4) is a whole number exactly for the
\* powers of 4 (in double precision, for every x up to 4^28).
RECURSIVE Log4IsInt(_)
Log4IsInt(x) ==
    IF x = 1 THEN TRUE
    ELSE IF x % 4 # 0 THEN FALSE
    ELSE Log4IsInt(x \div 4)

\* int(math.log(x, 4)) for x >= 1.
RECURSIVE Log4Floor(_)
Log4Floor(x) == IF x < 4 THEN 0 ELSE 1 + Log4Floor(x \div 4)

Raised(exc, self) == [raised |-> exc, self |-> self]

\* Lines 329-350: the convolutional front end.  math.log raises ValueError
\* ("math domain error") for an argument <= 0.
ConvnetStep_And(self, a) ==
    IF self.prep_type = "conv"
    THEN IF a.spatial_downsample <= 0
         THEN Raised("ValueError", self)
         ELSE IF ~Log4IsInt(a.spatial_downsample) /\ a.temporal_downsample # 1
         THEN Raised("ValueError", self)
         ELSE Raised("None", [self EXCEPT !.convnet = "Conv2DDownsample",
                                !.num_layers = Log4Floor(a.spatial_downsample)])
    ELSE IF self.prep_type = "conv1x1"
    THEN IF a.temporal_downsample # 1
         THEN Raised("ValueError", self)
         ELSE Raised("None", [self EXCEPT !.convnet = "Conv2d1x1"])
    ELSE Raised("None", self)

ConvnetStep(self, a) ==
    IF self.prep_type = "conv"
    THEN IF a.spatial_downsample <= 0
         THEN Raised("ValueError", self)
         ELSE IF ~Log4IsInt(a.spatial_downsample) \/ a.temporal_downsample # 1
         THEN Raised("ValueError", self)
         ELSE Raised("None", [self EXCEPT !.convnet = "Conv2DDownsample",
                                !.num_layers = Log4Floor(a.spatial_downsample)])
    ELSE IF self.prep_type = "conv1x1"
    THEN IF a.temporal_downsample # 1
         THEN Raised("ValueError", self)
         ELSE Raised("None", [self EXCEPT !.convnet = "Conv2d1x1"])
    ELSE Raised("None", self)

\* Lines 352-357: the position encoding.
PositionEncodingStep_NoElse(self, a) ==
    IF self.position_encoding_type = "trainable"
    THEN Raised("None", [self EXCEPT !.position_embeddings = "PerceiverTrainablePositionEncoding"])
    ELSE IF self.position_encoding_type = "fourier"
    THEN Raised("None", [self EXCEPT !.position_embeddings = "PerceiverFourierPositionEncoding"])
    ELSE Raised("None", self)

PositionEncodingStep(self, a) ==
    IF self.position_encoding_type = "trainable"
    THEN Raised("None", [self EXCEPT !.position_embeddings = "PerceiverTrainablePositionEncoding"])
    ELSE IF self.position_encoding_type = "fourier"
    THEN Raised("None", [self EXCEPT !.position_embeddings = "PerceiverFourierPositionEncoding"])
    ELSE Raised("ValueError", self)

NoPreprocessor ==
    [prep_type |-> "unset", spatial_downsample |-> 0, temporal_downsample |-> 0,
     position_encoding_type |-> "unset", concat_or_add_pos |-> "unset",
     convnet |-> "unset", num_layers |-> 0, position_embeddings |-> "unset"]

\* PerceiverImagePreprocessor.__init__ (lines 296-365), the other arguments
\* (config, channels, position_encoding_kwargs) being valid.
PreprocessorInit(a) ==
    IF a.prep_type \notin {"conv", "patches", "pixels", "conv1x1"}
    THEN Raised("ValueError", NoPreprocessor)
    ELSE IF a.concat_or_add_pos \notin {"concat", "add"}
    THEN Raised("ValueError", NoPreprocessor)
    ELSE LET self == [NoPreprocessor EXCEPT
                        !.prep_type = a.prep_type,
                        !.spatial_downsample = a.spatial_downsample,
                        !.temporal_downsample = a.temporal_downsample,
                        !.position_encoding_type = a.position_encoding_type,
                        !.concat_or_add_pos = a.concat_or_add_pos]
             conv == ConvnetStep(self, a)
         IN  IF conv.raised # "None" THEN conv
             ELSE PositionEncodingStep(conv.self, a)

PreprocessorArgs ==
    [prep_type : PrepTypes \cup {"video"},
     concat_or_add_pos : ConcatOrAdd \cup {"mul"},
     position_encoding_type : PositionEncodingTypes \cup {"rotary"},
     spatial_downsample : (-1)..MaxDownsample,
     temporal_downsample : 0..MaxTemporal]

NoPrepCall ==
    [called |-> FALSE,
     args |-> [prep_type |-> "unset", concat_or_add_pos |-> "unset",
               position_encoding_type |-> "unset", spatial_downsample |-> 0,
               temporal_downsample |-> 0],
     raised |-> "None", self |-> NoPreprocessor]

IdlePreprocessor == prep = NoPrepCall

\* The arguments of the call are drawn before it.
InitPreprocessor == \E a \in PreprocessorArgs : prep = [NoPrepCall EXCEPT !.args = a]

\* PerceiverImagePreprocessor(config, **prep.args)
ConstructPreprocessor ==
    LET r == PreprocessorInit(prep.args)
    IN  /\ ~prep.called
        /\ prep' = [called |-> TRUE, args |-> prep.args, raised |-> r.raised, self |-> r.self]

NextPreprocessor ==
    ConstructPreprocessor /\ UNCHANGED <<convnextVars, dsVars, fourierVars, vitmaeVars>>

(***************************************************************************)
(*        processing_perceiver.py : Conv2dSamePadding, Conv2DDownsample    *)
(***************************************************************************)

\* Bounds of the inputs tried.
MaxBatch == 2
MaxSide == 12

\* Conv2DDownsample.__init__ (lines 81-83, 96-101).
InChannels == 3
OutChannels == 64
ConvKernel == 7
ConvStride == 2
PoolKernel == 3
PoolStride == 2

\* Conv2dSamePadding.__init__ (lines 68-70): the (before, after) zero padding
\* of one axis for kernel size k.
SamePad(k) == <<k \div 2 + (k - 2 * (k \div 2)) - 1, k \div 2>>

\* Output length of one axis of nn.Conv2d / nn.MaxPool2d with no padding of
\* their own, dilation 1, ceil_mode False: floor((n - k) / s) + 1.
SlidingOut(n, k, s) == ((n - k) \div s) + 1

\* Conv2dSamePadding.forward (lines 72-73) on shape <<b, c, h, w>>.
Conv2dSamePaddingForward(shape, in_c, out_c, k, s) ==
    LET p == SamePad(k)
        h == shape[3] + p[1] + p[2]
        w == shape[4] + p[1] + p[2]
    IN  IF shape[2] # in_c \/ h < k \/ w < k
        THEN [raised |-> "RuntimeError", shape |-> <<>>]
        ELSE [raised |-> "None",
              shape |-> <<shape[1], out_c, SlidingOut(h, k, s), SlidingOut(w, k, s)>>]

\* nn.MaxPool2d(kernel_size=k, stride=s) on shape <<b, c, h, w>>: an output
\* axis of length <= 0 is an error ("Output size is too small").
MaxPool2dForward(shape, k, s) ==
    LET h == SlidingOut(shape[3], k, s)
        w == SlidingOut(shape[4], k, s)
    IN  IF h <= 0 \/ w <= 0
        THEN [raised |-> "RuntimeError", shape |-> <<>>]
        ELSE [raised |-> "None", shape |-> <<shape[1], shape[2], h, w>>]

\* Conv2DDownsample.forward (lines 103-109); batchnorm and relu keep the shape.
Conv2DDownsampleForward(shape) ==
    LET c == Conv2dSamePaddingForward(shape, InChannels, OutChannels, ConvKernel, ConvStride)
    IN  IF c.raised # "None" THEN c
        ELSE MaxPool2dForward(c.shape, PoolKernel, PoolStride)

NoDsCall == [called |-> FALSE, input |-> <<>>, raised |-> "None", shape |-> <<>>]

IdleDownsample == ds = NoDsCall

\* The input, of shape <<b, in_channels, h, w>>, is drawn before the call.
InitDownsample ==
    \E b \in 1..MaxBatch, h \in 1..MaxSide, w \in 1..MaxSide :
        ds = [NoDsCall EXCEPT !.input = <<b, InChannels, h, w>>]

\* out = Conv2DDownsample()(inputs)
CallDownsample ==
    LET r == Conv2DDownsampleForward(ds.input)
    IN  /\ ~ds.called
        /\ ds' = [called |-> TRUE, input |-> ds.input, raised |-> r.raised, shape |-> r.shape]

NextDownsample ==
    CallDownsample /\ UNCHANGED <<convnextVars, prepVars, fourierVars, vitmaeVars>>

(***************************************************************************)
(*   processing_perceiver.py : Fourier position encoding                   *)
(*                                                                         *)
(* A tensor is its shape and, for its last axis, what each channel holds:  *)
(* a raw position (fn "pos") of dimension `dim`, or the sine / cosine of   *)
(* pi * position `dim` * frequency band `band` of resolution `res`.        *)
(***************************************************************************)

\* Bounds of the arguments tried.
MaxBands == 2
MaxDims == 2
MaxIndex == 2
MaxStdout == 2

Resolutions == {8}

RECURSIVE Prod(_)
Prod(s) == IF s = <<>> THEN 1 ELSE Head(s) * Prod(Tail(s))

Tensor(shape, chan) == [none |-> FALSE, shape |-> shape, chan |-> chan]
NonePos == [none |-> TRUE, shape |-> <<>>, chan |-> <<>>]
Outcome(exc, t) == [raised |-> exc, shape |-> t.shape, chan |-> t.chan]

PosChannel(i) == [fn |-> "pos", dim |-> i, res |-> 0, band |-> 0]
PosChannels(d) == [i \in 1..d |-> PosChannel(i)]

\* build_linear_positions (lines 163-181): one linspace per index dimension,
\* meshgrid, stacked on a new last axis.
build_linear_positions(index_dims) ==
    Tensor(index_dims \o <<Len(index_dims)>>, PosChannels(Len(index_dims)))

\* _check_or_build_spatial_positions (lines 208-232).
check_or_build_spatial_positions(pos, index_dims, batch_size) ==
    IF pos.none
    THEN LET built == build_linear_positions(index_dims)
         IN  [raised |-> "None",
              pos |-> Tensor(<<batch_size, Prod(index_dims), Len(index_dims)>>, built.chan)]
    ELSE IF pos.shape[Len(pos.shape)] # Len(index_dims)
         THEN [raised |-> "AssertionError", pos |-> pos]
         ELSE [raised |-> "None", pos |-> pos]

\* The two print calls of generate_fourier_features (lines 140-141).
FourierPrints(pos, num_bands, max_resolution) ==
    << <<"Shape of pos:", pos.shape>>,
       <<"Shape of frequency bands:", <<Len(max_resolution), num_bands>> >> >>

\* torch.reshape of [n, d, K] to [n, d * K] (line 146): row-major, the last
\* axis varies fastest.  m[i][k] is the element at (i, k).
Reshape(m, d, K) ==
    [j \in 1..(d * K) |-> m[((j - 1) \div K) + 1][((j - 1) % K) + 1]]

ApplyFn(chan, f) == [j \in DOMAIN chan |-> [chan[j] EXCEPT !.fn = f]]

\* generate_fourier_features (lines 112-160), pos of rank 3.
generate_fourier_features(pos, num_bands, max_resolution, concat_pos, sine_only) ==
    LET n == pos.shape[2]
        d == pos.shape[3]
        dr == Len(max_resolution)
        \* line 145: pos[0, :, :][:, :, None] * freq_bands[None, :, :]
        broadcastable == d = dr \/ d = 1 \/ dr = 1
        D == IF d >= dr THEN d ELSE dr
        product == [i \in 1..D |-> [k \in 1..num_bands |->
                      [fn |-> "id", dim |-> IF d = 1 THEN 1 ELSE i,
                       res |-> IF dr = 1 THEN 1 ELSE i, band |-> k]]]
        \* line 146
        flat == Reshape(product, D, num_bands)
        \* lines 148-155
        feats == IF sine_only THEN ApplyFn(flat, "sin")
                 ELSE ApplyFn(flat, "sin") \o ApplyFn(flat, "cos")
    IN  IF ~broadcastable
        THEN Outcome("RuntimeError", NonePos)
        ELSE IF concat_pos
        \* line 159: torch.cat([pos, per_pos_features.unsqueeze(0)], dim=-1);
        \* the sizes of the other axes, <<batch, n>> and <<1, n>>, must agree.
        THEN IF pos.shape[1] # 1
             THEN Outcome("RuntimeError", NonePos)
             ELSE Outcome("None", Tensor(<<pos.shape[1], n, d + Len(feats)>>, pos.chan \o feats))
        ELSE Outcome("None", Tensor(<<n, Len(feats)>>, feats))

\* PerceiverFourierPositionEncoding.forward (lines 245-254): the outcome and
\* the lines printed.
FourierForward(self, index_dims, batch_size, pos) ==
    LET c == check_or_build_spatial_positions(pos, index_dims, batch_size)
    IN  IF c.raised # "None"
        THEN [out |-> Outcome(c.raised, NonePos), printed |-> <<>>]
        ELSE [out |-> generate_fourier_features(c.pos, self.num_bands, self.max_resolution,
                                                self.concat_pos, self.sine_only),
              printed |-> FourierPrints(c.pos, self.num_bands, self.max_resolution)]

NoModule == [built |-> FALSE, num_bands |-> 0, max_resolution |-> <<>>,
             concat_pos |-> TRUE, sine_only |-> FALSE]

NoFourierCall ==
    [called |-> FALSE, index_dims |-> <<>>, batch_size |-> 0, pos |-> NonePos,
     raised |-> "None", shape |-> <<>>, chan |-> <<>>]

InitFourier ==
    /\ fmod = NoModule
    /\ fcall = NoFourierCall
    /\ stdout = <<>>

IndexDims == UNION {[1..d -> 1..MaxIndex] : d \in 1..MaxDims}
MaxResolutions == UNION {[1..d -> Resolutions] : d \in 1..MaxDims}

\* PerceiverFourierPositionEncoding.__init__ (lines 238-243): a new module,
\* not called yet.
FourierConstruct ==
    \E K \in 1..MaxBands, res \in MaxResolutions, cp \in BOOLEAN, so \in BOOLEAN :
        /\ fmod' = [built |-> TRUE, num_bands |-> K, max_resolution |-> res,
                    concat_pos |-> cp, sine_only |-> so]
        /\ fcall' = NoFourierCall
        /\ UNCHANGED stdout

\* The positions a caller may pass: None, or a tensor [batch, n, d].
GivenPositions(index_dims, batch_size) ==
    {NonePos} \cup
    {Tensor(<<batch_size, Prod(index_dims), d>>, PosChannels(d)) : d \in 1..MaxDims}

\* module(index_dims, batch_size, pos)
FourierCall ==
    \E index_dims \in IndexDims, batch_size \in 1..MaxBatch :
      \E pos \in GivenPositions(index_dims, batch_size) :
        LET r == FourierForward(fmod, index_dims, batch_size, pos)
        IN  /\ fmod.built
            /\ Len(stdout) + Len(r.printed) <= MaxStdout
            /\ fcall' = [called |-> TRUE, index_dims |-> index_dims,
                         batch_size |-> batch_size, pos |-> pos,
                         raised |-> r.out.raised, shape |-> r.out.shape, chan |-> r.out.chan]
            /\ stdout' = stdout \o r.printed
            /\ UNCHANGED fmod

NextFourier ==
    \/ FourierConstruct /\ UNCHANGED <<convnextVars, prepVars, dsVars, vitmaeVars>>
    \/ FourierCall /\ UNCHANGED <<convnextVars, prepVars, dsVars, vitmaeVars>>

(***************************************************************************)
(*   convert_vit_mae_to_pytorch.py                                         *)
(*                                                                         *)
(* A key is the sequence of its dot-separated parts; a state dict is the   *)
(* sequence of its entries in insertion order, as a Python dict keeps them.*)
(***************************************************************************)

\* Bound of the state dicts tried.
MaxKeys == 2

\* `pat in name`
RECURSIVE Contains(_, _)
Contains(name, pat) ==
    IF Len(name) < Len(pat) THEN FALSE
    ELSE IF SubSeq(name, 1, Len(pat)) = pat THEN TRUE
    ELSE Contains(Tail(name), pat)

\* name.replace(pat, rep): every occurrence, left to right, not overlapping.
RECURSIVE Replace(_, _, _)
Replace(name, pat, rep) ==
    IF Len(name) < Len(pat) THEN name
    ELSE IF SubSeq(name, 1, Len(pat)) = pat
    THEN rep \o Replace(SubSeq(name, Len(pat) + 1, Len(name)), pat, rep)
    ELSE <<Head(name)>> \o Replace(Tail(name), pat, rep)

ReplaceIfIn(name, pat, rep) == IF Contains(name, pat) THEN Replace(name, pat, rep) ELSE name

\* rename_key (lines 7-37).
rename_key(name) ==
    LET n1 == ReplaceIfIn(name, <<"patch_embed", "proj">>,
                          <<"embeddings", "patch_embeddings", "projection">>)
        n2 == ReplaceIfIn(n1, <<"patch_embed", "norm">>, <<"embeddings", "norm">>)
        n3 == IF Contains(n2, <<"layers">>) THEN <<"encoder">> \o n2 ELSE n2
        n4 == ReplaceIfIn(n3, <<"attn", "proj">>, <<"attention", "output", "dense">>)
        n5 == ReplaceIfIn(n4, <<"attn">>, <<"attention", "self">>)
        n6 == ReplaceIfIn(n5, <<"norm1">>, <<"layernorm_before">>)
        n7 == ReplaceIfIn(n6, <<"norm2">>, <<"layernorm_after">>)
        n8 == ReplaceIfIn(n7, <<"mlp", "fc1">>, <<"intermediate", "dense">>)
        n9 == ReplaceIfIn(n8, <<"mlp", "fc2">>, <<"output", "dense">>)
        n10 == IF n9 = <<"norm", "weight">> THEN <<"layernorm", "weight">> ELSE n9
        n11 == IF n10 = <<"norm", "bias">> THEN <<"layernorm", "bias">> ELSE n10
    IN  IF Contains(n11, <<"head">>)
        THEN Replace(n11, <<"head">>, <<"classifier">>)
        ELSE <<"vit">> \o n11

Keys(d) == [i \in DOMAIN d |-> d[i].k]
HasKey(d, key) == \E i \in DOMAIN d : d[i].k = key
DictGet(d, key) == d[CHOOSE i \in DOMAIN d : d[i].k = key].v

\* d.pop(key): the dict without the entry.
DictRemove(d, key) == SelectSeq(d, LAMBDA e : e.k # key)

\* d[key] = val: an existing key keeps its place and takes the value, a new
\* key goes last.
DictSet(d, key, val) ==
    IF HasKey(d, key)
    THEN [i \in DOMAIN d |-> IF d[i].k = key THEN [k |-> key, v |-> val] ELSE d[i]]
    ELSE Append(d, [k |-> key, v |-> val])

\* The loop of convert_state_dict (lines 40-47) over the keys of the copy,
\* acting on the dict itself.  A key missing from the dict is a KeyError of
\* pop; a popped 'qkv' key raises with the entry already removed.
RECURSIVE ConvertLoop(_, _)
ConvertLoop(keys, d) ==
    IF keys = <<>> THEN [raised |-> "None", dict |-> d]
    ELSE LET key == Head(keys)
         IN  IF ~HasKey(d, key) THEN [raised |-> "KeyError", dict |-> d]
             ELSE LET val == DictGet(d, key)
                      popped == DictRemove(d, key)
                  IN  IF Contains(key, <<"qkv">>)
                      THEN [raised |-> "NotImplementedError", dict |-> popped]
                      ELSE ConvertLoop(Tail(keys), DictSet(popped, rename_key(key), val))

\* convert_state_dict (lines 39-49).
convert_state_dict(orig_state_dict) == ConvertLoop(Keys(orig_state_dict), orig_state_dict)

\* The keys of the checkpoints tried.
KeyUniverse ==
    {<<"cls_token">>, <<"vit", "cls_token">>,
     <<"head", "weight">>, <<"classifier", "weight">>,
     <<"norm", "weight">>, <<"norm", "bias">>,
     <<"patch_embed", "proj", "weight">>, <<"patch_embed", "norm", "weight">>,
     <<"layers", "0", "attn", "proj", "weight">>,
     <<"layers", "0", "attn", "qkv", "weight">>,
     <<"layers", "0", "norm1", "weight">>, <<"layers", "0", "norm2", "weight">>,
     <<"layers", "0", "mlp", "fc1", "weight">>, <<"layers", "0", "mlp", "fc2", "weight">>,
     <<"attn", "proj">>, <<"attention", "output", "dense">>}

\* The state dicts tried: up to MaxKeys distinct keys, in any order, entry i
\* holding tensor i.
StateDicts ==
    UNION {{[i \in 1..n |-> [k |-> ks[i], v |-> i]] :
               ks \in {f \in [1..n -> KeyUniverse] :
                          \A i, j \in 1..n : i # j => f[i] # f[j]}} : n \in 0..MaxKeys}

InitViTMAE ==
    /\ pc = "start"
    /\ state_dict = <<>>
    /\ orig_dict = <<>>
    /\ events = <<>>
    /\ dump = {}

Fail ==
    /\ pc' = "error"
    /\ UNCHANGED <<state_dict, orig_dict, events, dump>>

\* Line 56: state_dict = torch.hub.load_from_url(checkpoint_url, ...)
Download ==
    /\ pc = "start"
    /\ \/ \E d \in StateDicts :
            /\ state_dict' = d
            /\ orig_dict' = d
            /\ events' = Append(events, "download")
            /\ pc' = "downloaded"
            /\ UNCHANGED dump
       \/ Fail

\* Line 60: new_state_dict = convert_state_dict(state_dict, model); an
\* exception ends the run.
ConvertStep_Swallow ==
    /\ pc = "downloaded"
    /\ LET r == convert_state_dict(state_dict)
       IN  /\ state_dict' = r.dict
           /\ \/ /\ r.raised = "None"
                 /\ events' = Append(events, "rename")
                 /\ pc' = "converted"
              \/ /\ r.raised # "None"
                 /\ events' = events
                 /\ pc' = "converted"
    /\ UNCHANGED <<orig_dict, dump>>

ConvertStep ==
    /\ pc = "downloaded"
    /\ LET r == convert_state_dict(state_dict)
       IN  /\ state_dict' = r.dict
           /\ \/ /\ r.raised = "None"
                 /\ events' = Append(events, "rename")
                 /\ pc' = "converted"
              \/ /\ r.raised # "None"
                 /\ events' = events
                 /\ pc' = "error"
    /\ UNCHANGED <<orig_dict, dump>>

\* Line 61: model.load_state_dict(new_state_dict); it raises when the keys
\* are not those of the model.
LoadStateDict ==
    /\ pc = "converted"
    /\ \/ /\ events' = Append(events, "load")
          /\ pc' = "loaded"
          /\ UNCHANGED <<state_dict, orig_dict, dump>>
       \/ Fail

\* Lines 63-67: the test image is fetched and run through the feature extractor.
FetchImage ==
    /\ pc = "loaded"
    /\ \/ /\ pc' = "fetched"
          /\ UNCHANGED <<state_dict, orig_dict, events, dump>>
       \/ Fail

\* Lines 69-70: model.save_pretrained(pytorch_dump_folder_path)
SaveModel ==
    /\ pc = "fetched"
    /\ \/ /\ dump' = dump \cup {"model"}
          /\ events' = Append(events, "save_model")
          /\ pc' = "model_saved"
          /\ UNCHANGED <<state_dict, orig_dict>>
       \/ Fail

\* Lines 72-73: feature_extractor.save_pretrained(pytorch_dump_folder_path)
SaveFeatureExtractor ==
    /\ pc = "model_saved"
    /\ \/ /\ dump' = dump \cup {"feature_extractor"}
          /\ events' = Append(events, "save_feature_extractor")
          /\ pc' = "done"
          /\ UNCHANGED <<state_dict, orig_dict>>
       \/ Fail

NextViTMAE ==
    \/ Download /\ UNCHANGED <<convnextVars, prepVars, dsVars, fourierVars>>
    \/ ConvertStep /\ UNCHANGED <<convnextVars, prepVars, dsVars, fourierVars>>
    \/ LoadStateDict /\ UNCHANGED <<convnextVars, prepVars, dsVars, fourierVars>>
    \/ FetchImage /\ UNCHANGED <<convnextVars, prepVars, dsVars, fourierVars>>
    \/ SaveModel /\ UNCHANGED <<convnextVars, prepVars, dsVars, fourierVars>>
    \/ SaveFeatureExtractor /\ UNCHANGED <<convnextVars, prepVars, dsVars, fourierVars>>

(***************************************************************************)
(*                           Specifications                                *)
(***************************************************************************)

IdleFourier == InitFourier
IdleConvNext == InitConvNext
IdleViTMAE == InitViTMAE

InitOfConvNext ==
    InitConvNext /\ IdlePreprocessor /\ IdleDownsample /\ IdleFourier /\ IdleViTMAE
InitOfPreprocessor ==
    IdleConvNext /\ InitPreprocessor /\ IdleDownsample /\ IdleFourier /\ IdleViTMAE
InitOfDownsample ==
    IdleConvNext /\ IdlePreprocessor /\ InitDownsample /\ IdleFourier /\ IdleViTMAE
InitOfFourier ==
    IdleConvNext /\ IdlePreprocessor /\ IdleDownsample /\ InitFourier /\ IdleViTMAE
InitOfViTMAE ==
    IdleConvNext /\ IdlePreprocessor /\ IdleDownsample /\ IdleFourier /\ InitViTMAE

SpecConvNext == InitOfConvNext /\ [][NextConvNext]_vars
SpecPreprocessor == InitOfPreprocessor /\ [][NextPreprocessor]_vars
SpecDownsample == InitOfDownsample /\ [][NextDownsample]_vars
SpecFourier == InitOfFourier /\ [][NextFourier]_vars
SpecViTMAE == InitOfViTMAE /\ [][NextViTMAE]_vars

(***************************************************************************)
(*                               Claims                                    *)
(***************************************************************************)

\* C1: the PerceiverImagePreprocessor constructor raises ValueError whenever
\* prep_type, concat_or_add_pos or position_encoding_type is outside its set
\* of names, so a preprocessor that was constructed holds three names taken
\* from those sets.
C1_InvalidNamesRaise ==
    prep.called =>
        /\ (\/ prep.args.prep_type \notin PrepTypes
            \/ prep.args.concat_or_add_pos \notin ConcatOrAdd
            \/ prep.args.position_encoding_type \notin PositionEncodingTypes)
           => prep.raised = "ValueError"
        /\ prep.raised = "None" =>
             /\ prep.self.prep_type \in PrepTypes
             /\ prep.self.concat_or_add_pos \in ConcatOrAdd
             /\ prep.self.position_encoding_type \in PositionEncodingTypes

\* A call that passes both early checks and the downsampling checks, and is
\* rejected for its position encoding type alone.
C1_Witness ==
    /\ prep.called
    /\ prep.args.prep_type = "patches"
    /\ prep.args.concat_or_add_pos = "add"
    /\ prep.args.position_encoding_type \notin PositionEncodingTypes
    /\ prep.raised = "ValueError"

RECURSIVE PowersFrom(_, _, _)
PowersFrom(p, base, max) == IF p > max THEN {} ELSE {p} \cup PowersFrom(p * base, base, max)
PowersOf4 == PowersFrom(1, 4, MaxDownsample + 1)

C6_Downsamples4x ==
    (/\ ds.called
     /\ ds.input[3] % 4 = 0
     /\ ds.input[4] % 4 = 0)
    => /\ ds.raised = "None"
       /\ ds.shape = <<ds.input[1], OutChannels, ds.input[3] \div 4, ds.input[4] \div 4>>

\* C4: every ConvNextConfig constructed with no arguments has num_channels 3,
\* num_stages 4, dims [96, 192, 384, 768] and depths [3, 3, 9, 3], whatever
\* was constructed or modified before.
C4_DefaultsOfNoArgCall ==
    (last.op = "construct" /\ last.passed = {})
    => LET c == configs[last.idx]
       IN  /\ c.num_channels = 3
           /\ c.num_stages = 4
           /\ heap[c.dims] = <<96, 192, 384, 768>>
           /\ heap[c.depths] = <<3, 3, 9, 3>>

\* C5: after ConvNextConfig(...) returns, every named argument the caller
\* passed is an attribute of that name holding the value passed.
C5_ArgumentsStored ==
    last.op = "construct"
    => \A name \in last.passed : configs[last.idx][name] = last.args[name]

\* A step of the Fourier part that is a call of the module, not its construction.
FourierCallStep ==
    /\ fmod.built
    /\ fmod' = fmod
    /\ <<fcall, stdout>>' # <<fcall, stdout>>

\* C3: position-encoding generation is pure and stateless: a call changes
\* neither the module's fields nor any state outside its return value, and
\* two calls with equal arguments return equal results.
C3_PureStateless ==
    [][FourierCallStep =>
          /\ stdout' = stdout
          /\ fmod' = fmod
          /\ (/\ fcall.called
              /\ fcall'.index_dims = fcall.index_dims
              /\ fcall'.batch_size = fcall.batch_size
              /\ fcall'.pos = fcall.pos)
             => (/\ fcall'.raised = fcall.raised
                 /\ fcall'.shape = fcall.shape
                 /\ fcall'.chan = fcall.chan)]_vars

SinCos(f, i, K) == [k \in 1..K |-> <<f, i, k>>]

RECURSIVE ByDimension(_, _, _, _)
ByDimension(f, i, d, K) ==
    IF i > d THEN <<>> ELSE SinCos(f, i, K) \o ByDimension(f, i + 1, d, K)

\* The documented channel order: the d raw positions, the sines by dimension
\* and within a dimension by band, then the cosines in the same order.
DocumentedChannels(d, K, concat_pos, sine_only) ==
    (IF concat_pos THEN [i \in 1..d |-> <<"pos", i, 0>>] ELSE <<>>)
    \o ByDimension("sin", 1, d, K)
    \o (IF sine_only THEN <<>> ELSE ByDimension("cos", 1, d, K))

\* The number of dimensions d of the positions a call featurizes.
PosDims(c) == IF c.pos.none THEN Len(c.index_dims) ELSE c.pos.shape[3]

\* C7: for pos of shape [batch, n, d] and max_resolution of length d,
\* generate_fourier_features returns d*K channels when sine_only and 2*d*K
\* otherwise, plus d when concat_pos, in the documented order.
C7_ChannelLayout ==
    (/\ fcall.called
     /\ fcall.raised # "AssertionError"
     /\ Len(fmod.max_resolution) = PosDims(fcall))
    => LET d == PosDims(fcall)
           K == fmod.num_bands
       IN  /\ fcall.raised = "None"
           /\ Len(fcall.chan) = (IF fmod.sine_only THEN d * K ELSE 2 * d * K)
                                + (IF fmod.concat_pos THEN d ELSE 0)
           /\ fcall.shape[Len(fcall.shape)] = Len(fcall.chan)
           /\ [j \in DOMAIN fcall.chan |->
                  <<fcall.chan[j].fn, fcall.chan[j].dim, fcall.chan[j].band>>]
              = DocumentedChannels(d, K, fmod.concat_pos, fmod.sine_only)

ScriptOrder == <<"download", "rename", "load", "save_model", "save_feature_extractor">>

\* C2: the steps of convert_vit_mae_checkpoint happen in the order download,
\* rename, load, save model, save feature extractor, each at most once, and
\* nothing is in the dump folder unless renaming and loading both completed.
C2_LinearScript ==
    /\ \E n \in 0..Len(ScriptOrder) : events = SubSeq(ScriptOrder, 1, n)
    /\ dump # {} => ("rename" \in Range(events) /\ "load" \in Range(events))

\* A run that reached its end and saved both the model and the feature extractor.
C2_Witness ==
    /\ pc = "done"
    /\ dump = {"model", "feature_extractor"}
    /\ orig_dict # <<>>

\* C9: for a state dict with no 'qkv' key, convert_state_dict returns exactly
\* one entry per original key, rename_key(k) holding k's original value, and
\* as many entries as before.
C9_OneEntryPerKey ==
    (/\ pc = "converted"
     /\ \A i \in DOMAIN orig_dict : ~Contains(orig_dict[i].k, <<"qkv">>))
    => /\ Len(state_dict) = Len(orig_dict)
       /\ \A i \in DOMAIN orig_dict :
             \E j \in DOMAIN state_dict :
                state_dict[j] = [k |-> rename_key(orig_dict[i].k), v |-> orig_dict[i].v]

=============================================================================
